---- MODULE Spec2Model ----
(***************************************************************************)
(* Local Council Data Explorer: the data-aggregation and caching layer.    *)
(*                                                                         *)
(* The model follows the backend as the repository documents it:           *)
(*   - InMemoryCache (CacheEntry.is_expired, get, set, generate_key),      *)
(*   - the service pattern (BinsService.get_bin_collections) that the      *)
(*     three services share: key, cache.get, fetch or mock, cache.set,     *)
(*   - the router preconditions in front of the services,                  *)
(*   - the air-quality primary -> forecast -> fallback-response sequence.  *)
(* Time is the wall clock read by time.time(), in seconds.                 *)
(***************************************************************************)
EXTENDS Integers, Sequences, FiniteSets, TLC

(***************************************************************************)
(* Bounds of the model.                                                    *)
(***************************************************************************)
MaxTime == 4200

\* the number of set calls the concurrent threads make
MaxSets == 3

\* the longest sequence of readings given to the air-quality transformation
MaxReadings == 3

\* the number of executions one useApi hook starts
MaxExecutions == 3

\* the longest list of entries in an upstream response given to an adapter
MaxEntries == 3

\* the instants at which the program looks at the clock: for every TTL an
\* entry written at 0 is seen exactly at its expiry time and after it
Instants == {0, 600, 1800, 3600, 4200}

Tasks == {"A", "B"}

(***************************************************************************)
(* Configuration (config.py, class Settings).                              *)
(***************************************************************************)
CACHE_TTL_BINS == 3600

CACHE_TTL_PLANNING == 1800

CACHE_TTL_AIR_QUALITY == 600

\* Python's None, for optional query parameters and dates
None == "None"

DEFAULT_AREA == "Yorkshire & Humber"

Domains == {"bins", "planning", "air_quality"}

\* every service using the bins TTL
DomainTTL_bins_everywhere(domain) == CACHE_TTL_BINS

\* the per-domain TTL each service hands to cache.set
DomainTTL(domain) ==
    CASE domain = "bins" -> CACHE_TTL_BINS
      [] domain = "planning" -> CACHE_TTL_PLANNING
      [] domain = "air_quality" -> CACHE_TTL_AIR_QUALITY

(***************************************************************************)
(* Normalized results.  A result is a record of one shape; `origin` tells  *)
(* which path produced it and `stamp` is the clock value at which the      *)
(* adapter produced it (it identifies the adapter invocation).             *)
(***************************************************************************)
NoneValue ==
    [domain |-> None, subject |-> None, origin |-> None, stamp |-> 0,
     summary |-> None, pollutants |-> <<>>, forecast_date |-> None]

\* the result of transforming an upstream (or mock) document
Transformed(domain, subject, origin, t) ==
    [domain |-> domain, subject |-> subject, origin |-> origin, stamp |-> t,
     summary |-> IF domain = "air_quality" THEN "Low" ELSE None,
     pollutants |-> IF domain = "air_quality" THEN <<"NO2">> ELSE <<>>,
     forecast_date |-> IF domain = "air_quality" THEN "2025-12-03" ELSE None]

\* the air-quality service's fallback response, built when both endpoints fail
FallbackResponse(area, t) ==
    [domain |-> "air_quality", subject |-> area, origin |-> "degraded",
     stamp |-> t, summary |-> "Unavailable", pollutants |-> <<>>,
     forecast_date |-> None]

(***************************************************************************)
(* services/cache.py: CacheEntry and InMemoryCache.  The cache is a Python *)
(* dict: a function whose domain is the set of keys it holds.  Every       *)
(* method body runs under the cache's lock, so each is one atomic step.    *)
(***************************************************************************)
CacheEntry(value, expires_at, created_at) ==
    [value |-> value, expires_at |-> expires_at, created_at |-> created_at]

\* an entry that never expires
is_expired_never(entry, t) == FALSE

\* an entry that already counts as expired at its expiry time
is_expired_at_expiry(entry, t) == t >= entry.expires_at

\* CacheEntry.is_expired at clock value t:  time.time() > self.expires_at
is_expired(entry, t) == t > entry.expires_at

\* a get that forgets to look at the expiry time
cache_get_no_expiry(c, key, t) ==
    IF key \notin DOMAIN c THEN NoneValue ELSE c[key].value

\* what InMemoryCache.get(key) returns at clock value t
cache_get(c, key, t) ==
    IF key \notin DOMAIN c THEN NoneValue
    ELSE IF is_expired(c[key], t) THEN NoneValue
    ELSE c[key].value

\* the dict after InMemoryCache.get(key) at clock value t (lazy eviction)
cache_after_get(c, key, t) ==
    IF key \in DOMAIN c /\ is_expired(c[key], t)
    THEN [x \in DOMAIN c \ {key} |-> c[x]]
    ELSE c

\* a set that keeps the entry the key already has (dict.setdefault)
cache_set_keep(c, key, value, ttl, t1, t2) ==
    [x \in DOMAIN c \cup {key} |->
        IF x \in DOMAIN c THEN c[x] ELSE CacheEntry(value, t1 + ttl, t2)]

\* the dict after InMemoryCache.set(key, value, ttl); t1 and t2 are the two
\* clock readings of the call (expires_at first, created_at second)
cache_set(c, key, value, ttl, t1, t2) ==
    [x \in DOMAIN c \cup {key} |->
        IF x = key THEN CacheEntry(value, t1 + ttl, t2) ELSE c[x]]

\* the clock reading that stamps created_at when set reads the clock once
\* (current_time = time.time(), used for both fields)
ClockReadings(t) == {t}

\* the second clock reading when set reads the clock twice (time.time() in
\* expires_at, then time.time() in created_at): the first one or a later one
LaterReadings(t) == {t2 \in Instants : t2 >= t}

\* a cleanup that empties the cache
cache_cleanup_all(c, t) == <<>>

\* the dict after InMemoryCache.cleanup(): the entries not expired at t
cache_cleanup(c, t) == [x \in {k \in DOMAIN c : ~is_expired(c[k], t)} |-> c[x]]

\* what cleanup returns: the number of entries it removed
cleanup_count(c, t) == Cardinality({k \in DOMAIN c : is_expired(c[k], t)})

\* the dict after InMemoryCache.delete(key)
cache_delete(c, key) == [x \in DOMAIN c \ {key} |-> c[x]]

(***************************************************************************)
(* InMemoryCache.generate_key(prefix, **kwargs).  kwargs is the sequence   *)
(* of (name, value) pairs in the order the caller wrote them.              *)
(***************************************************************************)
\* the parameter names the services use, in lexicographic order
ParamNames ==
    <<"area", "date_from", "date_to", "house_number", "lpa", "postcode", "uprn">>

NameRank(name) == CHOOSE i \in 1..Len(ParamNames) : ParamNames[i] = name

RECURSIVE InsertItem(_, _)
InsertItem(item, sorted) ==
    IF sorted = <<>> THEN <<item>>
    ELSE IF NameRank(item[1]) < NameRank(Head(sorted)[1])
         THEN <<item>> \o sorted
         ELSE <<Head(sorted)>> \o InsertItem(item, Tail(sorted))

\* the items in the order the caller wrote them
SortedItems_unsorted(kwargs) == kwargs

\* sorted(kwargs.items())
RECURSIVE SortedItems(_)
SortedItems(kwargs) ==
    IF kwargs = <<>> THEN <<>>
    ELSE InsertItem(Head(kwargs), SortedItems(Tail(kwargs)))

\* a join that also writes the parameters whose value is None
RECURSIVE JoinParts_none_written(_, _)
JoinParts_none_written(acc, items) ==
    IF items = <<>> THEN acc
    ELSE JoinParts_none_written(
            acc \o ":" \o Head(items)[1] \o "=" \o Head(items)[2], Tail(items))

\* ":".join(parts), parts starting with the prefix
RECURSIVE JoinParts(_, _)
JoinParts(acc, items) ==
    IF items = <<>> THEN acc
    ELSE IF Head(items)[2] # None
         THEN JoinParts(acc \o ":" \o Head(items)[1] \o "=" \o Head(items)[2],
                        Tail(items))
         ELSE JoinParts(acc, Tail(items))

generate_key(prefix, kwargs) == JoinParts(prefix, SortedItems(kwargs))

(***************************************************************************)
(* Queries.  One record shape for the three endpoints; a parameter the     *)
(* endpoint does not have, or that the caller left out, is None.           *)
(***************************************************************************)
Query(domain, postcode, uprn, lpa, date_from, date_to, area) ==
    [domain |-> domain, postcode |-> postcode, uprn |-> uprn, lpa |-> lpa,
     date_from |-> date_from, date_to |-> date_to, area |-> area,
     house_number |-> None]

\* the same query with the bins endpoint's optional house_number given
WithHouseNumber(q, house_number) == [q EXCEPT !.house_number = house_number]

NoQuery == Query(None, None, None, None, None, None, None)

\* the queries the model issues: valid and invalid ones of every domain
Queries ==
    { Query("bins", "YO1 1AA", None, None, None, None, None),
      Query("bins", "ZZ9 9ZZ", None, None, None, None, None),
      Query("bins", None, None, None, None, None, None),
      WithHouseNumber(Query("bins", None, None, None, None, None, None), "10"),
      Query("planning", None, None, "City of York Council", None, None, None),
      Query("planning", None, None, "City of York Council",
            "2025-12-31", "2025-01-01", None),
      Query("planning", None, None, None, None, None, None),
      Query("air_quality", None, None, None, None, None, None) }

\* a postcode outside the mock table; live mode treats it like any other
\* postcode (the upstream decides), so it is only issued in mock mode
UnknownToMock == {q \in Queries : q.postcode = "ZZ9 9ZZ"}

IssuedQueries(mock) == IF mock THEN Queries ELSE Queries \ UnknownToMock

\* ISO dates in chronological order (the order of their strings)
IsoDates == <<"2025-01-01", "2025-12-31">>

DateRank(d) == CHOOSE i \in 1..Len(IsoDates) : IsoDates[i] = d

\* Python truthiness of an optional string:  `not s` holds for None and ""
Falsy(s) == s = None \/ s = ""

\* a planning endpoint that does not compare the two dates
PlanningPrecondition_no_date_order(q) == q.lpa # None

\* the planning endpoint's precondition: lpa is required, and when both
\* dates are given date_from must not be after date_to
PlanningPrecondition(q) ==
    /\ q.lpa # None
    /\ (q.date_from # None /\ q.date_to # None
            => DateRank(q.date_from) <= DateRank(q.date_to))

\* a bins router that is content with a house number alone
ValidRequest_house_number(q) ==
    CASE q.domain = "bins" ->
            ~(Falsy(q.postcode) /\ Falsy(q.uprn) /\ Falsy(q.house_number))
      [] q.domain = "planning" -> PlanningPrecondition(q)
      [] q.domain = "air_quality" -> TRUE

\* the precondition each router checks before it calls its service
ValidRequest(q) ==
    CASE q.domain = "bins" -> ~(Falsy(q.postcode) /\ Falsy(q.uprn))
      [] q.domain = "planning" -> PlanningPrecondition(q)
      [] q.domain = "air_quality" -> TRUE

\* the area the air-quality endpoint queries: the default region when absent
AreaOf(q) == IF q.area = None THEN DEFAULT_AREA ELSE q.area

\* the entity a query is about (what the adapter looks up)
SubjectOf(q) ==
    CASE q.domain = "bins" -> IF q.postcode # None THEN q.postcode ELSE q.uprn
      [] q.domain = "planning" -> q.lpa
      [] q.domain = "air_quality" -> AreaOf(q)

\* the cache key each service builds for its query
KeyOf(q) ==
    CASE q.domain = "bins" ->
            generate_key("bins", <<<<"postcode", q.postcode>>, <<"uprn", q.uprn>>>>)
      [] q.domain = "planning" ->
            generate_key("planning", <<<<"lpa", q.lpa>>,
                                       <<"date_from", q.date_from>>,
                                       <<"date_to", q.date_to>>>>)
      [] q.domain = "air_quality" ->
            generate_key("air_quality", <<<<"area", AreaOf(q)>>>>)

(***************************************************************************)
(* Mock mode: the fixed tables of sample entities.                         *)
(***************************************************************************)
MOCK_BIN_DATA == {"YO1 1AA", "SW1A 1AA", "M1 1AA"}

MOCK_PLANNING_DATA ==
    {"City of York Council", "Westminster City Council", "Manchester City Council"}

MOCK_AIR_DATA ==
    {"Yorkshire & Humber", "Greater London", "Greater Manchester", "West Midlands"}

MockKnown(q) ==
    CASE q.domain = "bins" -> q.postcode \in MOCK_BIN_DATA
      [] q.domain = "planning" -> q.lpa \in MOCK_PLANNING_DATA
      [] q.domain = "air_quality" -> AreaOf(q) \in MOCK_AIR_DATA

\* a mock adapter that answers every input with sample data
MockOutcome_always(q) == "Success"

\* the outcome of the mock adapter: sample data for an entity of its table,
\* not found for any other input
MockOutcome(q) == IF MockKnown(q) THEN "Success" ELSE "UpstreamNotFound"

(***************************************************************************)
(* Live mode: what an upstream HTTP call can come back with, and the       *)
(* outcome the adapter makes of it.                                        *)
(***************************************************************************)
UpstreamResponses ==
    {"ok", "status404", "status5xx", "timeout", "connect_error", "bad_body"}

\* the outcome of one endpoint call as the air-quality service sees it
FetchOutcome(resp) ==
    CASE resp = "ok" -> "Success"
      [] resp = "status404" -> "UpstreamNotFound"
      [] OTHER -> "UpstreamUnavailable"

\* the exceptions `client.get(url)`, `raise_for_status()` and the parsing of
\* the body can raise for each response; the service re-raises all of them.
\* A body that does not parse raises a ValueError (json.JSONDecodeError, a
\* validation error) or another exception (a missing field)
Raises(resp) ==
    CASE resp = "ok" -> {"none"}
      [] resp = "status404" -> {"HTTPStatusError404"}
      [] resp = "status5xx" -> {"HTTPStatusError"}
      [] resp = "timeout" -> {"TimeoutException"}
      [] resp = "connect_error" -> {"ConnectError"}
      [] resp = "bad_body" -> {"ValueError", "KeyError"}

\* the router's except clauses, in their order: the HTTP status it answers
RouterStatus(exc) ==
    CASE exc = "none" -> 200
      [] exc = "TimeoutException" -> 503
      [] exc = "HTTPStatusError404" -> 404
      [] exc = "HTTPStatusError" -> 503
      [] exc = "ValueError" -> 400
      [] OTHER -> 500

\* what each HTTP status means to the caller
OutcomeOfStatus(status) ==
    CASE status = 200 -> "Success"
      [] status = 400 -> "InvalidRequest"
      [] status = 404 -> "UpstreamNotFound"
      [] status = 503 -> "UpstreamUnavailable"
      [] OTHER -> "UnexpectedError"

\* a service that treats a cached degraded result as a miss
Truthy_not_degraded(cached) == cached # NoneValue /\ cached.origin # "degraded"

\* `if cached:` in the service: a cached model object is truthy, None is not
Truthy(cached) == cached # NoneValue

(***************************************************************************)
(* State.                                                                  *)
(*   now        the wall clock                                             *)
(*   cache      InMemoryCache._cache                                       *)
(*   MOCK_MODE  settings.MOCK_MODE, fixed at startup                       *)
(*   task       one record per request-handling task: where it is in its   *)
(*              request, the query and key, and a log of what it did: hit, *)
(*              adapter invocations, endpoint calls with their area and    *)
(*              outcome, the adapter's outcome, the outcome and result     *)
(*              handed to the caller, the response of the bins or planning *)
(*              upstream, whether the caller has gone away                 *)
(*   api        for a client that drives the cache directly: the last      *)
(*              call (arguments, return value, the entry the key held      *)
(*              before) and, per key, the last set (time, ttl, value and   *)
(*              what it overwrote)                                         *)
(*   built      for a client that calls generate_key directly: the last    *)
(*              call (prefix, kwargs in the order written, key returned)   *)
(*              and the call before it                                     *)
(*   lock       InMemoryCache._lock: the thread that holds it, or None     *)
(*   thread     for threads that call the cache's methods concurrently:    *)
(*              the method each is in, where it is in the method's body    *)
(*              and the method's local variables                           *)
(*   log        what those threads did: the number of set calls, the       *)
(*              entries removed so far, whether an entry was removed twice *)
(*              and whether a `del` found no entry (KeyError)              *)
(*   air        for a client that runs the air-quality transformation      *)
(*              directly: the readings of the last run and what it made    *)
(*              of them                                                    *)
(*   client     the browser's call of one fetch function of the frontend:  *)
(*              the function, where it is in its retry loop, the requests  *)
(*              sent and how each settled, the waits made, how it ended    *)
(*   hook       the useApi hooks of the frontend, one per tab: the state   *)
(*              each returns, the executions it started and how each       *)
(*              settled                                                    *)
(*   activeTab  the tab the App component shows                            *)
(*   adapter    for a client that runs the bins or the planning            *)
(*              transformation directly: the upstream entries of the last  *)
(*              run and the list made of them                              *)
(***************************************************************************)
VARIABLES now, cache, MOCK_MODE, task, api, built, lock, thread, log, air,
          client, hook, activeTab, adapter

vars == <<now, cache, MOCK_MODE, task, api, built, lock, thread, log, air,
         client, hook, activeTab, adapter>>

IdleTask ==
    [pc |-> "idle", query |-> NoQuery, key |-> None, hit |-> FALSE,
     calls |-> 0, primary |-> 0, fallback |-> 0,
     p_area |-> None, f_area |-> None, p_out |-> None, f_out |-> None,
     adapter |-> None, outcome |-> None, result |-> NoneValue,
     resp |-> None, abandoned |-> FALSE]

NoEntry == CacheEntry(NoneValue, 0, 0)

NoCall ==
    [name |-> "none", key |-> None, value |-> NoneValue, ttl |-> 0, at |-> 0,
     ret |-> NoneValue, had |-> FALSE, old |-> NoEntry, sets |-> <<>>,
     deleted |-> FALSE, count |-> 0]

Threads == {"T1", "T2"}

IdleThread ==
    [pc |-> "idle", key |-> None, value |-> NoneValue, ttl |-> 0,
     entry |-> NoEntry, expired |-> {}, count |-> 0]

NoLog == [sets |-> 0, removed |-> {}, twice |-> FALSE, keyerror |-> FALSE]

NoKey ==
    [prefix |-> None, kwargs |-> <<>>, key |-> None,
     p_prefix |-> None, p_kwargs |-> <<>>, p_key |-> None]

(***************************************************************************)
(* Air-quality transformation: the readings the upstream reports (one per  *)
(* site and species) become the pollutants, max_daqi and summary of an     *)
(* AirQualityResponse.                                                     *)
(***************************************************************************)
\* the species the model's sites report
PollutantNames == {"NO2", "PM2.5"}

\* the DAQI scale
DaqiIndices == 1..10

Reading(name, index) == [name |-> name, index |-> index]

\* a deduplication that keeps the first reading of each pollutant
deduplicate_keep_first(kept, readings) ==
    LET RECURSIVE walk(_, _)
        walk(k, rs) ==
            IF rs = <<>> THEN k
            ELSE LET r == Head(rs) IN
                 IF \E i \in 1..Len(k) : k[i].name = r.name
                 THEN walk(k, Tail(rs))
                 ELSE walk(Append(k, r), Tail(rs))
    IN  walk(kept, readings)

\* step 3, deduplicate pollutants (keep worst reading): one entry per name,
\* replaced when a later reading of the name has a higher index
deduplicate(kept, readings) ==
    LET RECURSIVE walk(_, _)
        walk(k, rs) ==
            IF rs = <<>> THEN k
            ELSE LET r == Head(rs) IN
                 IF \E i \in 1..Len(k) : k[i].name = r.name
                 THEN walk([i \in 1..Len(k) |->
                              IF k[i].name = r.name /\ r.index > k[i].index
                              THEN r ELSE k[i]], Tail(rs))
                 ELSE walk(Append(k, r), Tail(rs))
    IN  walk(kept, readings)

\* step 4, max DAQI from all pollutants
calculate_max_daqi(pollutants) ==
    CHOOSE m \in {pollutants[i].index : i \in 1..Len(pollutants)} :
        \A i \in 1..Len(pollutants) : pollutants[i].index <= m

\* step 5, map index to summary band (DAQI Bands Reference)
get_band(index) ==
    CASE index \in 1..3 -> "Low"
      [] index \in 4..6 -> "Moderate"
      [] index \in 7..9 -> "High"
      [] index = 10 -> "Very High"

\* step 6, sort pollutants by severity (highest index first, stable)
sort_by_severity(pollutants) ==
    LET RECURSIVE insert(_, _)
        insert(p, sorted) ==
            IF sorted = <<>> THEN <<p>>
            ELSE IF p.index > Head(sorted).index THEN <<p>> \o sorted
            ELSE <<Head(sorted)>> \o insert(p, Tail(sorted))
        RECURSIVE sort(_, _)
        sort(ps, sorted) ==
            IF ps = <<>> THEN sorted ELSE sort(Tail(ps), insert(Head(ps), sorted))
    IN  sort(pollutants, <<>>)

\* steps 3 to 6 on the readings of one response
transform_air(readings) ==
    LET pollutants == sort_by_severity(deduplicate(<<>>, readings))
        max_daqi == calculate_max_daqi(pollutants)
    IN  [pollutants |-> pollutants, max_daqi |-> max_daqi,
         summary |-> get_band(max_daqi)]

\* a panel that describes index 10 like 7 to 9
getDaqiDescription_high_at_ten(index) ==
    IF index <= 3 THEN <<"Low", "Ideal for outdoor activities">>
    ELSE IF index <= 6
    THEN <<"Moderate", "Sensitive individuals should reduce exertion">>
    ELSE <<"High", "Reduce outdoor activity">>

\* AirQualityPanel's text for data.max_daqi: <<band, advice>> stands for the
\* string "band - advice"
getDaqiDescription(index) ==
    IF index <= 3 THEN <<"Low", "Ideal for outdoor activities">>
    ELSE IF index <= 6
    THEN <<"Moderate", "Sensitive individuals should reduce exertion">>
    ELSE IF index <= 9 THEN <<"High", "Reduce outdoor activity">>
    ELSE <<"Very High", "Avoid strenuous outdoor activity">>

NoTransform ==
    [readings |-> <<>>, pollutants |-> <<>>, max_daqi |-> 0, summary |-> None,
     description |-> <<>>]

(***************************************************************************)
(* The frontend's fetch functions.  One call is followed through its retry *)
(* loop: each `await fetch(...)` settles with a response or a rejection,   *)
(* each `await delay(ms)` ends when its timer fires.                       *)
(***************************************************************************)
MAX_RETRIES == 3

RETRY_DELAY_MS == 1000

FetchFunctions == {"fetchBinCollections", "fetchPlanningApplications", "fetchAirQuality"}

\* features/planning/api.ts sends one request and has no loop; the other
\* copy of fetchPlanningApplications has the loop of the bins and air ones
HasRetryLoop(fn) ==
    IF fn = "fetchPlanningApplications" THEN BOOLEAN ELSE {TRUE}

\* ApiError.status of an error that carries none (`status?: number`)
NoStatus == 0

\* the statuses of the backend's error responses
ErrorStatuses == {400, 404, 422, 500, 503}

\* the `detail` of an error response's body
Details == {"Invalid request parameters", "Service unavailable"}

\* the message of the TypeError a rejected fetch carries
NetworkMessages == {"Failed to fetch", "Load failed"}

\* a response: its status, whether its body parses as JSON, and the detail
\* in the body (None when the body has none or does not parse)
Response(status, json, detail) ==
    [status |-> status, json |-> json, detail |-> detail, error |-> None]

\* a fetch that rejects: no response, an Error with a message
Rejection(message) ==
    [status |-> NoStatus, json |-> FALSE, detail |-> None, error |-> message]

\* how one `await fetch(...)` settles: a 2xx response whose body is JSON, a
\* 2xx response whose body is not, an error response with or without a
\* detail, or a rejection (network)
Settlements ==
    {Response(200, TRUE, None), Response(200, FALSE, None)}
        \cup {Response(st, d # None, d) : st \in ErrorStatuses, d \in Details \cup {None}}
        \cup {Rejection(m) : m \in NetworkMessages}

\* `response.ok`
OkResponse(resp) == resp.error = None /\ resp.status \in 200..299

\* a test that takes every error response for a server error
ServerError_any(resp) == resp.status >= 400

\* `response.status >= 500`
ServerError(resp) == resp.status >= 500

\* the class of a settlement
Kind(resp) ==
    CASE resp.error # None -> "network_error"
      [] OkResponse(resp) /\ resp.json -> "ok"
      [] OkResponse(resp) -> "ok_bad_body"
      [] ServerError(resp) -> "status5xx"
      [] OTHER -> "status4xx"

\* the classes of the settlements of a call, in order
Kinds(c) == [i \in 1..Len(c.settled) |-> Kind(c.settled[i])]

\* `HTTP error ${response.status}`
HttpErrorMessage(status) ==
    CASE status = 400 -> "HTTP error 400"
      [] status = 404 -> "HTTP error 404"
      [] status = 422 -> "HTTP error 422"
      [] status = 500 -> "HTTP error 500"
      [] status = 503 -> "HTTP error 503"

\* { message: errorMessage, status: response.status } as ApiError
ApiErrorOf(resp) ==
    [message |-> IF resp.detail # None THEN resp.detail
                 ELSE HttpErrorMessage(resp.status),
     status |-> resp.status]

\* an Error thrown with a message and no status
PlainError(message) == [message |-> message, status |-> NoStatus]

\* let lastError: ApiError = { message: "Unknown error" }
UnknownError == PlainError("Unknown error")

\* what a call ends with: the value it returns or the error it throws
NoResult == [value |-> None, message |-> None, status |-> NoStatus]

ReturnedValue(value) == [NoResult EXCEPT !.value = value]

ThrownError(error) ==
    [NoResult EXCEPT !.message = error.message, !.status = error.status]

NoFetch ==
    [fn |-> None, loop |-> FALSE, pc |-> "idle", attempt |-> 0, sent |-> 0,
     in_flight |-> 0, settled |-> <<>>, waits |-> <<>>,
     lastError |-> UnknownError, result |-> NoResult]

\* a loop that goes round once more
LoopContinues_inclusive(attempt) == attempt <= MAX_RETRIES

\* `attempt < MAX_RETRIES` at the head of the for loop
LoopContinues(attempt) == attempt < MAX_RETRIES

\* a failure is followed by a wait when it was not the last attempt
RetryAllowed(attempt) == attempt < MAX_RETRIES - 1

\* a wait of the base delay before every retry
BackoffDelay_flat(attempt) == RETRY_DELAY_MS

\* the argument of `delay` after a failed attempt
BackoffDelay(attempt) == RETRY_DELAY_MS * (attempt + 1)

\* the call has ended: `return response.json()` or a throw
Settled(c, pc, result) == [c EXCEPT !.pc = pc, !.result = result]

\* `await delay(...)` after the failure of attempt c.attempt
Delaying(c) ==
    [c EXCEPT !.pc = "delaying", !.waits = Append(@, BackoffDelay(c.attempt))]

\* attempt++ and the loop's test: the next `fetch`, or `throw lastError`
NextIteration(c) ==
    IF LoopContinues(c.attempt + 1)
    THEN [c EXCEPT !.pc = "fetching", !.attempt = @ + 1, !.sent = @ + 1,
                   !.in_flight = @ + 1]
    ELSE Settled([c EXCEPT !.attempt = @ + 1], "thrown", ThrownError(c.lastError))

\* the function is called: parameters are put in the URL and the first
\* request is sent
CallFetch(fn, loop) ==
    /\ client.pc = "idle"
    /\ client' = [NoFetch EXCEPT !.fn = fn, !.loop = loop, !.pc = "fetching",
                                 !.sent = 1, !.in_flight = 1]
    /\ UNCHANGED <<now, cache, MOCK_MODE, hook, activeTab, adapter, task, api, built, lock, thread, log, air>>

\* a catch block that keeps the first error it caught
CatchError_keep_first(c, resp) ==
    IF c.lastError = UnknownError
    THEN [c EXCEPT !.lastError = PlainError(resp.error)]
    ELSE c

\* lastError = { message: error.message } in the catch block
CatchError(c, resp) == [c EXCEPT !.lastError = PlainError(resp.error)]

\* the request in flight settles; the code runs up to its next await or to
\* its end
FetchSettles(resp) ==
    /\ client.pc = "fetching"
    /\ UNCHANGED <<now, cache, MOCK_MODE, hook, activeTab, adapter, task, api, built, lock, thread, log, air>>
    /\ LET c == [client EXCEPT !.in_flight = @ - 1, !.settled = Append(@, resp)] IN
       client' =
         IF ~c.loop
         THEN CASE resp.error # None -> Settled(c, "thrown", ThrownError(PlainError(resp.error)))
                [] ~OkResponse(resp) ->
                       Settled(c, "thrown",
                               ThrownError(PlainError("Failed to fetch planning applications")))
                [] resp.json -> Settled(c, "returned", ReturnedValue("body"))
                [] OTHER -> Settled(c, "thrown", ThrownError(PlainError("SyntaxError")))
         ELSE CASE resp.error # None ->
                       LET c2 == CatchError(c, resp) IN
                       IF RetryAllowed(c.attempt) THEN Delaying(c2)
                       ELSE NextIteration(c2)
                [] ~OkResponse(resp) ->
                       IF ServerError(resp) /\ RetryAllowed(c.attempt) THEN Delaying(c)
                       ELSE Settled(c, "thrown", ThrownError(ApiErrorOf(resp)))
                [] resp.json -> Settled(c, "returned", ReturnedValue("body"))
                [] OTHER -> Settled(c, "thrown", ThrownError(PlainError("SyntaxError")))

\* the timer of `delay` fires: `continue`, or the end of the catch block,
\* leads to the next iteration
DelayEnds ==
    /\ client.pc = "delaying"
    /\ client' = NextIteration(client)
    /\ UNCHANGED <<now, cache, MOCK_MODE, hook, activeTab, adapter, task, api, built, lock, thread, log, air>>

\* the caller has taken the value or the error; the next call can be made
CallHandled ==
    /\ client.pc \in {"returned", "thrown"}
    /\ client' = NoFetch
    /\ UNCHANGED <<now, cache, MOCK_MODE, hook, activeTab, adapter, task, api, built, lock, thread, log, air>>

\* the air-quality service transforms the readings of one upstream response
\* and the panel renders the outcome
TransformAir(readings) ==
    /\ air = NoTransform
    /\ LET r == transform_air(readings) IN
       air' = [readings |-> readings, pollutants |-> r.pollutants,
               max_daqi |-> r.max_daqi, summary |-> r.summary,
               description |-> getDaqiDescription(r.max_daqi)]
    /\ UNCHANGED <<now, cache, MOCK_MODE, hook, activeTab, adapter, task, api, built, lock, thread, log, client>>

\* the response has been rendered; the next one can be transformed
AirRendered ==
    /\ air # NoTransform
    /\ air' = NoTransform
    /\ UNCHANGED <<now, cache, MOCK_MODE, hook, activeTab, adapter, task, api, built, lock, thread, log, client>>

(***************************************************************************)
(* The frontend's useApi hook.  A component that calls useApi gets the     *)
(* hook's state; its effect, refetch and reset act on it, and each         *)
(* execution's `await fetcher()` settles in a step of its own.             *)
(***************************************************************************)
Tabs == {"bins", "planning", "air"}

\* what a fetcher resolves with
FetchedData == {"response 1", "response 2"}

\* the message of what a fetcher rejects with
FetcherErrors == {"Failed to fetch", "Service unavailable"}

\* ApiState<T>
ApiState(data, loading, error) ==
    [data |-> data, loading |-> loading, error |-> error]

\* a hook whose first state has loading = false whatever `immediate` is
InitialState_idle(immediate) == ApiState(None, FALSE, None)

\* useState<ApiState<T>>({ data: null, loading: immediate, error: null })
InitialState(immediate) == ApiState(None, immediate, None)

\* one call of execute: in flight, resolved with data or rejected with a
\* message
StartedExecution == [status |-> "pending", value |-> None]

\* a component that has not rendered yet
Unmounted ==
    [mounted |-> FALSE, immediate |-> FALSE, effect_ran |-> FALSE,
     state |-> ApiState(None, FALSE, None), executions |-> <<>>,
     clean |-> FALSE, was_reset |-> FALSE, overlapped |-> FALSE]

\* the executions of a hook that have not settled
InFlight(hk) ==
    {id \in 1..Len(hk.executions) : hk.executions[id].status = "pending"}

\* an execute that leaves the error of the state in place
Executing_keep_error(hk) ==
    [hk EXCEPT !.state = [@ EXCEPT !.loading = TRUE],
               !.executions = Append(@, StartedExecution),
               !.clean = FALSE,
               !.overlapped = @ \/ InFlight(hk) # {}]

\* execute up to its await:
\* setState((prev) => ({ ...prev, loading: true, error: null })); fetcher()
Executing(hk) ==
    [hk EXCEPT !.state = [@ EXCEPT !.loading = TRUE, !.error = None],
               !.executions = Append(@, StartedExecution),
               !.clean = FALSE,
               !.overlapped = @ \/ InFlight(hk) # {}]

\* the try branch after the await:
\* setState({ data: result, loading: false, error: null })
Resolved(hk, id, result) ==
    [hk EXCEPT !.state = ApiState(result, FALSE, None),
               !.executions[id] = [status |-> "resolved", value |-> result]]

\* the catch branch:
\* setState((prev) => ({ ...prev, loading: false, error: message }))
Rejected(hk, id, message) ==
    [hk EXCEPT !.state = [@ EXCEPT !.loading = FALSE, !.error = message],
               !.executions[id] = [status |-> "rejected", value |-> message]]

\* the component's first render calls useApi(fetcher, deps, immediate)
UseApi(h, immediate) ==
    /\ ~hook[h].mounted
    /\ hook' = [hook EXCEPT ![h] = [Unmounted EXCEPT !.mounted = TRUE,
                                                     !.immediate = immediate,
                                                     !.state = InitialState(immediate)]]
    /\ UNCHANGED <<now, cache, MOCK_MODE, task, api, built, lock, thread, log, air,
                   client, activeTab, adapter>>

\* useEffect after the first render: if (immediate) execute()
EffectRuns(h) ==
    /\ hook[h].mounted
    /\ ~hook[h].effect_ran
    /\ hook' = [hook EXCEPT ![h] =
                  IF hook[h].immediate
                  THEN [Executing(hook[h]) EXCEPT !.effect_ran = TRUE]
                  ELSE [hook[h] EXCEPT !.effect_ran = TRUE]]
    /\ UNCHANGED <<now, cache, MOCK_MODE, task, api, built, lock, thread, log, air,
                   client, activeTab, adapter>>

\* refetch(), whatever the state of the hook
Refetch(h) ==
    /\ hook[h].effect_ran
    /\ Len(hook[h].executions) < MaxExecutions
    /\ hook' = [hook EXCEPT ![h] = Executing(hook[h])]
    /\ UNCHANGED <<now, cache, MOCK_MODE, task, api, built, lock, thread, log, air,
                   client, activeTab, adapter>>

\* the fetcher of execution id resolves
FetcherResolves(h, id, result) ==
    /\ id \in InFlight(hook[h])
    /\ hook' = [hook EXCEPT ![h] = Resolved(hook[h], id, result)]
    /\ UNCHANGED <<now, cache, MOCK_MODE, task, api, built, lock, thread, log, air,
                   client, activeTab, adapter>>

\* the fetcher of execution id rejects
FetcherRejects(h, id, message) ==
    /\ id \in InFlight(hook[h])
    /\ hook' = [hook EXCEPT ![h] = Rejected(hook[h], id, message)]
    /\ UNCHANGED <<now, cache, MOCK_MODE, task, api, built, lock, thread, log, air,
                   client, activeTab, adapter>>

\* reset(): setState({ data: null, loading: false, error: null })
Reset(h) ==
    /\ hook[h].effect_ran
    /\ ~hook[h].clean
    /\ hook' = [hook EXCEPT ![h] = [@ EXCEPT !.state = ApiState(None, FALSE, None),
                                             !.clean = TRUE,
                                             !.was_reset = TRUE]]
    /\ UNCHANGED <<now, cache, MOCK_MODE, task, api, built, lock, thread, log, air,
                   client, activeTab, adapter>>

(***************************************************************************)
(* The App component: three hooks, one tab shown.                          *)
(***************************************************************************)
\* what the panel of the active tab is given
activePanel ==
    [tab |-> activeTab, data |-> hook[activeTab].state.data,
     loading |-> hook[activeTab].state.loading,
     error |-> hook[activeTab].state.error]

\* the Retry button is on the panel: no spinner, an error
RetryShown(h) ==
    /\ activeTab = h
    /\ ~hook[h].state.loading
    /\ hook[h].state.error # None

\* App's first render: useApi(binFetcher, [], true), the same for planning
\* and air
AppRenders ==
    /\ \A h \in Tabs : ~hook[h].mounted
    /\ hook' = [h \in Tabs |-> [Unmounted EXCEPT !.mounted = TRUE,
                                                 !.immediate = TRUE,
                                                 !.state = InitialState(TRUE)]]
    /\ UNCHANGED <<now, cache, MOCK_MODE, task, api, built, lock, thread, log, air,
                   client, activeTab, adapter>>

\* the effects of the three hooks run after the first render
AppEffectsRun ==
    /\ \A h \in Tabs : hook[h].mounted /\ ~hook[h].effect_ran
    /\ hook' = [h \in Tabs |-> [Executing(hook[h]) EXCEPT !.effect_ran = TRUE]]
    /\ UNCHANGED <<now, cache, MOCK_MODE, task, api, built, lock, thread, log, air,
                   client, activeTab, adapter>>

\* the user clicks Retry on the panel shown
Retry(h) ==
    /\ RetryShown(h)
    /\ Refetch(h)

\* a tab switch that fetches the tab's data again
SwitchTab_refetch(tab) ==
    /\ hook[tab].effect_ran
    /\ tab # activeTab
    /\ activeTab' = tab
    /\ hook' = [hook EXCEPT ![tab] = Executing(hook[tab])]
    /\ UNCHANGED <<now, cache, MOCK_MODE, task, api, built, lock, thread, log, air,
                   client, adapter>>

\* Layout.onTabChange(tab): App.setActiveTab(tab)
SwitchTab(tab) ==
    /\ hook[tab].effect_ran
    /\ tab # activeTab
    /\ activeTab' = tab
    /\ UNCHANGED <<now, cache, MOCK_MODE, task, api, built, lock, thread, log, air,
                   client, hook, adapter>>

(***************************************************************************)
(* The transformations of the bins and the planning adapters.              *)
(***************************************************************************)
\* calendar dates <<year, month, day>>
Dates == {<<2025, 11, 10>>, <<2025, 12, 9>>, <<2026, 1, 2>>}

\* the time part of an upstream ISO datetime
Times == {"00:00:00", "07:30:00"}

\* the order of the strings YYYY-MM-DD: year, then month, then day
DateBefore(a, b) ==
    \/ a[1] < b[1]
    \/ a[1] = b[1] /\ a[2] < b[2]
    \/ a[1] = b[1] /\ a[2] = b[2] /\ a[3] < b[3]

\* BIN_TYPE_MAPPING
BIN_TYPE_MAPPING(binType) ==
    CASE binType = "GREY BIN" -> "Refuse"
      [] binType = "GREEN BIN" -> "Recycling"

\* one entry of the bins upstream's `bins` array
UpstreamBin(binType, date, time) ==
    [binType |-> binType, nextCollectionDate |-> [date |-> date, time |-> time]]

\* steps 2 and 3: map the type, parse the ISO datetime into YYYY-MM-DD
MapBin(entry) ==
    [type |-> BIN_TYPE_MAPPING(entry.binType),
     collection_date |-> entry.nextCollectionDate.date]

\* a sort of the bins with the latest collection first
sort_bins_descending(bins) ==
    LET RECURSIVE insert(_, _)
        insert(b, sorted) ==
            IF sorted = <<>> THEN <<b>>
            ELSE IF DateBefore(Head(sorted).collection_date, b.collection_date)
                 THEN <<b>> \o sorted
                 ELSE <<Head(sorted)>> \o insert(b, Tail(sorted))
        RECURSIVE sort(_, _)
        sort(bs, sorted) ==
            IF bs = <<>> THEN sorted ELSE sort(Tail(bs), insert(Head(bs), sorted))
    IN  sort(bins, <<>>)

\* step 4, sort bins by collection date (earliest first, stable)
sort_bins(bins) ==
    LET RECURSIVE insert(_, _)
        insert(b, sorted) ==
            IF sorted = <<>> THEN <<b>>
            ELSE IF DateBefore(b.collection_date, Head(sorted).collection_date)
                 THEN <<b>> \o sorted
                 ELSE <<Head(sorted)>> \o insert(b, Tail(sorted))
        RECURSIVE sort(_, _)
        sort(bs, sorted) ==
            IF bs = <<>> THEN sorted ELSE sort(Tail(bs), insert(Head(bs), sorted))
    IN  sort(bins, <<>>)

\* the bins transformation, steps 1 to 4
transform_bins(entries) ==
    sort_bins([i \in 1..Len(entries) |-> MapBin(entries[i])])

\* one entity of the planning upstream's `entities` array
UpstreamEntity(reference, entry_date, decision) ==
    [reference |-> reference, entry_date |-> entry_date,
     planning_decision |-> decision]

\* step 4, normalize status values
NormalizeStatus(decision) ==
    CASE decision = "" -> "Pending"
      [] decision = "approved" -> "Approved"

\* steps 2 to 5: map an entity to a PlanningApplication
MapEntity(entity) ==
    [reference |-> entity.reference,
     status |-> NormalizeStatus(entity.planning_decision),
     received_date |-> entity.entry_date]

\* step 6, sort by received_date (newest first, stable)
sort_applications(apps) ==
    LET RECURSIVE insert(_, _)
        insert(a, sorted) ==
            IF sorted = <<>> THEN <<a>>
            ELSE IF DateBefore(Head(sorted).received_date, a.received_date)
                 THEN <<a>> \o sorted
                 ELSE <<Head(sorted)>> \o insert(a, Tail(sorted))
        RECURSIVE sort(_, _)
        sort(as, sorted) ==
            IF as = <<>> THEN sorted ELSE sort(Tail(as), insert(Head(as), sorted))
    IN  sort(apps, <<>>)

\* the planning transformation, steps 1 to 6
transform_planning(entities) ==
    sort_applications([i \in 1..Len(entities) |-> MapEntity(entities[i])])

NoAdapter == [domain |-> None, upstream |-> <<>>, output |-> <<>>]

\* the bins adapter transforms the entries of one upstream response
TransformBins(entries) ==
    /\ adapter = NoAdapter
    /\ adapter' = [domain |-> "bins", upstream |-> entries,
                   output |-> transform_bins(entries)]
    /\ UNCHANGED <<now, cache, MOCK_MODE, task, api, built, lock, thread, log, air,
                   client, hook, activeTab>>

\* the planning adapter transforms the entities of one upstream response
TransformPlanning(entities) ==
    /\ adapter = NoAdapter
    /\ adapter' = [domain |-> "planning", upstream |-> entities,
                   output |-> transform_planning(entities)]
    /\ UNCHANGED <<now, cache, MOCK_MODE, task, api, built, lock, thread, log, air,
                   client, hook, activeTab>>

\* the response has been returned; the next one can be transformed
AdapterReturns ==
    /\ adapter # NoAdapter
    /\ adapter' = NoAdapter
    /\ UNCHANGED <<now, cache, MOCK_MODE, task, api, built, lock, thread, log, air,
                   client, hook, activeTab>>

Init ==
    /\ now = 0
    /\ cache = <<>>
    /\ MOCK_MODE \in BOOLEAN
    /\ task = [t \in Tasks |-> IdleTask]
    /\ api = NoCall
    /\ built = NoKey
    /\ lock = None
    /\ thread = [t \in Threads |-> IdleThread]
    /\ log = NoLog
    /\ air = NoTransform
    /\ client = NoFetch
    /\ hook = [h \in Tabs |-> Unmounted]
    /\ activeTab = "bins"
    /\ adapter = NoAdapter

\* a service that keeps the cache's lock from its get to its set, across
\* the await of the fetch
HoldsLock_during_fetch(t) ==
    lock = t \/ task[t].pc \in {"fetching", "primary", "fallback"}

\* task t is inside a `with self._lock:` block; the blocks lie within get
\* and set, which a task runs between two awaits, so none spans an await
HoldsLock(t) == lock = t

\* `with self._lock:` in get and set goes ahead when no one else holds it
CacheAvailable(t) == \A u \in Tasks \ {t} : ~HoldsLock(u)

\* the task record when the request ends with `outcome` and `result`
Returned(rec, outcome, result) ==
    [rec EXCEPT !.pc = "done", !.outcome = outcome, !.result = result]

\* cache.set(cache_key, result, ttl) followed by `return result`
StoreAndReturn(t, rec, c, result) ==
    \E t2 \in ClockReadings(now) :
        /\ cache' = cache_set(c, rec.key, result,
                              DomainTTL(rec.query.domain), now, t2)
        /\ now' = t2
        /\ task' = [task EXCEPT ![t] = Returned(rec, "Success", result)]

\* a service that remembers the failure in the cache (negative caching)
RaiseFailure_cached(t, rec, c, failure) ==
    /\ cache' = cache_set(c, rec.key, NoneValue,
                          DomainTTL(rec.query.domain), now, now)
    /\ now' = now
    /\ task' = [task EXCEPT ![t] = Returned(rec, failure, NoneValue)]

\* the adapter failed and the service lets the failure through to its
\* caller: nothing is stored
RaiseFailure(t, rec, c, failure) ==
    /\ cache' = c
    /\ now' = now
    /\ task' = [task EXCEPT ![t] = Returned(rec, failure, NoneValue)]

\* the router rejects the request before the service is called
Reject(t, rec) ==
    /\ UNCHANGED <<now, cache>>
    /\ task' = [task EXCEPT ![t] = Returned(rec, "InvalidRequest", NoneValue)]

(***************************************************************************)
(* A request arrives: router precondition, then the service up to its      *)
(* first await (key, cache.get, and in mock mode the whole method).        *)
(***************************************************************************)
Request(t, q) ==
    /\ task[t].pc = "idle"
    /\ CacheAvailable(t)
    /\ UNCHANGED <<MOCK_MODE, hook, activeTab, adapter, air, client, api, built, lock, thread, log>>
    /\ LET rec0 == [IdleTask EXCEPT !.query = q] IN
       IF ~ValidRequest(q)
       THEN Reject(t, rec0)
       ELSE LET key == KeyOf(q)
                cached == cache_get(cache, key, now)
                c1 == cache_after_get(cache, key, now)
                rec1 == [rec0 EXCEPT !.key = key]
                rec2 == [rec1 EXCEPT !.calls = 1]
            IN  IF Truthy(cached)
                THEN /\ cache' = c1
                     /\ now' = now
                     /\ task' = [task EXCEPT ![t] =
                            Returned([rec1 EXCEPT !.hit = TRUE], "Success", cached)]
                ELSE IF MOCK_MODE
                THEN IF MockOutcome(q) = "Success"
                     THEN StoreAndReturn(t, [rec2 EXCEPT !.adapter = "Success"], c1,
                              Transformed(q.domain, SubjectOf(q), "mock", now))
                     ELSE RaiseFailure(t, [rec2 EXCEPT !.adapter = MockOutcome(q)],
                                       c1, MockOutcome(q))
                ELSE /\ cache' = c1
                     /\ now' = now
                     /\ task' = [task EXCEPT ![t] =
                            IF q.domain = "air_quality"
                            THEN [rec2 EXCEPT !.pc = "primary", !.primary = 1,
                                              !.p_area = AreaOf(q)]
                            ELSE [rec2 EXCEPT !.pc = "fetching"]]

(***************************************************************************)
(* Bins and planning, live mode: _fetch_from_api comes back, with a result  *)
(* or with an exception that the service lets through to the router.       *)
(***************************************************************************)
\* a service that invokes the adapter again when it failed
FetchReturns_retry(t, resp) ==
    /\ task[t].pc = "fetching"
    /\ UNCHANGED <<MOCK_MODE, hook, activeTab, adapter, air, client, api, built, lock, thread, log>>
    /\ \E exc \in Raises(resp) :
       LET rec == [task[t] EXCEPT !.resp = resp,
                       !.adapter = OutcomeOfStatus(RouterStatus(exc))] IN
       IF rec.adapter = "Success"
       THEN StoreAndReturn(t, rec, cache,
                Transformed(rec.query.domain, SubjectOf(rec.query), "live", now))
       ELSE IF rec.calls < 2
       THEN /\ task' = [task EXCEPT ![t] = [rec EXCEPT !.calls = @ + 1]]
            /\ UNCHANGED <<now, cache>>
       ELSE RaiseFailure(t, rec, cache, rec.adapter)

FetchReturns(t, resp) ==
    /\ task[t].pc = "fetching"
    /\ CacheAvailable(t)
    /\ UNCHANGED <<MOCK_MODE, hook, activeTab, adapter, air, client, api, built, lock, thread, log>>
    /\ \E exc \in Raises(resp) :
       LET rec == [task[t] EXCEPT !.resp = resp,
                       !.adapter = OutcomeOfStatus(RouterStatus(exc))] IN
       IF rec.adapter = "Success"
       THEN StoreAndReturn(t, rec, cache,
                Transformed(rec.query.domain, SubjectOf(rec.query), "live", now))
       ELSE RaiseFailure(t, rec, cache, rec.adapter)

(***************************************************************************)
(* Air quality, live mode: Daily endpoint, then Forecast endpoint, then    *)
(* the fallback response.                                                  *)
(***************************************************************************)
\* a service that asks the Forecast endpoint whatever the Daily one answered
PrimaryReturns_always_forecast(t, resp) ==
    /\ task[t].pc = "primary"
    /\ UNCHANGED <<MOCK_MODE, hook, activeTab, adapter, air, client, api, built, lock, thread, log, now, cache>>
    /\ task' = [task EXCEPT ![t] =
                    [task[t] EXCEPT !.p_out = FetchOutcome(resp),
                                    !.pc = "fallback", !.fallback = @ + 1,
                                    !.f_area = AreaOf(task[t].query)]]

PrimaryReturns(t, resp) ==
    /\ task[t].pc = "primary"
    /\ CacheAvailable(t)
    /\ UNCHANGED <<MOCK_MODE, hook, activeTab, adapter, air, client, api, built, lock, thread, log>>
    /\ LET rec == [task[t] EXCEPT !.p_out = FetchOutcome(resp)] IN
       IF rec.p_out = "Success"
       THEN StoreAndReturn(t, [rec EXCEPT !.adapter = "Success"], cache,
                Transformed("air_quality", AreaOf(rec.query), "live", now))
       ELSE /\ task' = [task EXCEPT ![t] =
                            [rec EXCEPT !.pc = "fallback", !.fallback = @ + 1,
                                        !.f_area = AreaOf(rec.query)]]
            /\ UNCHANGED <<now, cache>>

\* a service that lets the Forecast endpoint's failure through
ForecastReturns_raises(t, resp) ==
    /\ task[t].pc = "fallback"
    /\ UNCHANGED <<MOCK_MODE, hook, activeTab, adapter, air, client, api, built, lock, thread, log>>
    /\ LET rec == [task[t] EXCEPT !.f_out = FetchOutcome(resp),
                                  !.adapter = FetchOutcome(resp)] IN
       IF rec.f_out = "Success"
       THEN StoreAndReturn(t, rec, cache,
                Transformed("air_quality", AreaOf(rec.query), "forecast", now))
       ELSE RaiseFailure(t, rec, cache, rec.f_out)

\* a service that returns the fallback response without caching it
ForecastReturns_uncached(t, resp) ==
    /\ task[t].pc = "fallback"
    /\ UNCHANGED <<MOCK_MODE, hook, activeTab, adapter, air, client, api, built, lock, thread, log>>
    /\ LET rec == [task[t] EXCEPT !.f_out = FetchOutcome(resp),
                                  !.adapter = "Success"] IN
       IF rec.f_out = "Success"
       THEN StoreAndReturn(t, rec, cache,
                Transformed("air_quality", AreaOf(rec.query), "forecast", now))
       ELSE /\ UNCHANGED <<now, cache>>
            /\ task' = [task EXCEPT ![t] =
                    Returned(rec, "Success", FallbackResponse(AreaOf(rec.query), now))]

ForecastReturns(t, resp) ==
    /\ task[t].pc = "fallback"
    /\ CacheAvailable(t)
    /\ UNCHANGED <<MOCK_MODE, hook, activeTab, adapter, air, client, api, built, lock, thread, log>>
    /\ LET rec == [task[t] EXCEPT !.f_out = FetchOutcome(resp),
                                  !.adapter = "Success"] IN
       IF rec.f_out = "Success"
       THEN StoreAndReturn(t, rec, cache,
                Transformed("air_quality", AreaOf(rec.query), "forecast", now))
       ELSE StoreAndReturn(t, rec, cache,
                FallbackResponse(AreaOf(rec.query), now))

\* the response has been delivered; the task is free for the next request
Respond(t) ==
    /\ task[t].pc = "done"
    /\ task' = [task EXCEPT ![t] = IdleTask]
    /\ UNCHANGED <<now, cache, MOCK_MODE, hook, activeTab, adapter, air, client, api, built, lock, thread, log>>

\* time passes (responses are delivered before the clock is looked at again)
Tick(t2) ==
    /\ now < t2
    /\ t2 <= MaxTime
    /\ \A t \in Tasks : task[t].pc # "done"
    /\ now' = t2
    /\ UNCHANGED <<cache, MOCK_MODE, hook, activeTab, adapter, air, client, task, api, built, lock, thread, log>>

Next ==
    \/ \E t \in Tasks, q \in IssuedQueries(MOCK_MODE) : Request(t, q)
    \/ \E t \in Tasks, resp \in UpstreamResponses : FetchReturns(t, resp)
    \/ \E t \in Tasks, resp \in UpstreamResponses : PrimaryReturns(t, resp)
    \/ \E t \in Tasks, resp \in UpstreamResponses : ForecastReturns(t, resp)
    \/ \E t \in Tasks : Respond(t)
    \/ \E t2 \in Instants : Tick(t2)

Spec == Init /\ [][Next]_vars

(***************************************************************************)
(* The cache driven directly through its methods, with any key, value and  *)
(* ttl, at any time.                                                       *)
(***************************************************************************)
CacheKeys ==
    { KeyOf(Query("bins", "YO1 1AA", None, None, None, None, None)),
      KeyOf(Query("air_quality", None, None, None, None, None, None)) }

CacheValues ==
    { Transformed("bins", "YO1 1AA", "live", 0), FallbackResponse(DEFAULT_AREA, 0) }

CacheTTLs == {CACHE_TTL_AIR_QUALITY, CACHE_TTL_PLANNING, CACHE_TTL_BINS}

\* the entry a key holds before a call, for the call log
HeldEntry(c, key) == IF key \in DOMAIN c THEN c[key] ELSE NoEntry

\* what a set finds under its key: nothing, an entry past its expiry time,
\* or an entry not yet past it
Overwrites(c, key, t) ==
    IF key \notin DOMAIN c THEN "none"
    ELSE IF t > c[key].expires_at THEN "expired" ELSE "live"

\* value = cache.get(key)
Get(key) ==
    /\ api' = [api EXCEPT !.name = "get", !.key = key, !.value = NoneValue,
                          !.ttl = 0, !.at = now,
                          !.ret = cache_get(cache, key, now),
                          !.had = (key \in DOMAIN cache),
                          !.old = HeldEntry(cache, key)]
    /\ cache' = cache_after_get(cache, key, now)
    /\ UNCHANGED <<now, MOCK_MODE, hook, activeTab, adapter, air, client, task, built, lock, thread, log>>

\* cache.set(key, value, ttl)
Set(key, value, ttl) ==
    \E t2 \in ClockReadings(now) :
        /\ api' = [api EXCEPT !.name = "set", !.key = key, !.value = value,
                              !.ttl = ttl, !.at = now, !.ret = NoneValue,
                              !.had = (key \in DOMAIN cache),
                              !.old = HeldEntry(cache, key),
                              !.sets = [k \in DOMAIN api.sets \cup {key} |->
                                            IF k = key
                                            THEN [at |-> now, ttl |-> ttl,
                                                  value |-> value,
                                                  over |-> Overwrites(cache, key, now)]
                                            ELSE api.sets[k]]]
        /\ cache' = cache_set(cache, key, value, ttl, now, t2)
        /\ now' = t2
        /\ UNCHANGED <<MOCK_MODE, hook, activeTab, adapter, air, client, task, built, lock, thread, log>>

InitCache == Init /\ MOCK_MODE = TRUE

NextCache ==
    \/ \E key \in CacheKeys : Get(key)
    \/ \E key \in CacheKeys, value \in CacheValues, ttl \in CacheTTLs :
            Set(key, value, ttl)
    \/ \E t2 \in Instants : Tick(t2)

SpecCache == InitCache /\ [][NextCache]_vars

(***************************************************************************)
(* The cache with all four methods, and with the set that reads the clock  *)
(* for each of the entry's two time fields.                                *)
(***************************************************************************)
StoreTTLs == {CACHE_TTL_AIR_QUALITY, CACHE_TTL_BINS}

StoreValues == {Transformed("bins", "YO1 1AA", "live", 0)}

\* cache.set(key, value, ttl) as InMemoryCache.set is written out:
\* expires_at = time.time() + ttl, created_at = time.time()
SetReadingTwice(key, value, ttl) ==
    \E t2 \in LaterReadings(now) :
        /\ api' = [api EXCEPT !.name = "set", !.key = key, !.value = value,
                              !.ttl = ttl, !.at = now, !.ret = NoneValue,
                              !.had = (key \in DOMAIN cache),
                              !.old = HeldEntry(cache, key),
                              !.deleted = FALSE, !.count = 0,
                              !.sets = [k \in DOMAIN api.sets \cup {key} |->
                                            IF k = key
                                            THEN [at |-> now, ttl |-> ttl,
                                                  value |-> value,
                                                  over |-> Overwrites(cache, key, now)]
                                            ELSE api.sets[k]]]
        /\ cache' = cache_set(cache, key, value, ttl, now, t2)
        /\ now' = t2
        /\ UNCHANGED <<MOCK_MODE, hook, activeTab, adapter, air, client, task, built, lock, thread, log>>

\* removed = cache.delete(key)
Delete(key) ==
    /\ api' = [api EXCEPT !.name = "delete", !.key = key, !.value = NoneValue,
                          !.ttl = 0, !.at = now, !.ret = NoneValue,
                          !.had = (key \in DOMAIN cache),
                          !.old = HeldEntry(cache, key),
                          !.deleted = (key \in DOMAIN cache), !.count = 0]
    /\ cache' = cache_delete(cache, key)
    /\ UNCHANGED <<now, MOCK_MODE, hook, activeTab, adapter, air, client, task, built, lock, thread, log>>

\* count = cache.cleanup()
Cleanup ==
    /\ api' = [api EXCEPT !.name = "cleanup", !.key = None, !.value = NoneValue,
                          !.ttl = 0, !.at = now, !.ret = NoneValue,
                          !.had = FALSE, !.old = NoEntry, !.deleted = FALSE,
                          !.count = cleanup_count(cache, now)]
    /\ cache' = cache_cleanup(cache, now)
    /\ UNCHANGED <<now, MOCK_MODE, hook, activeTab, adapter, air, client, task, built, lock, thread, log>>

NextStore ==
    \/ \E key \in CacheKeys : Get(key)
    \/ \E key \in CacheKeys, value \in StoreValues, ttl \in StoreTTLs :
            SetReadingTwice(key, value, ttl)
    \/ \E key \in CacheKeys : Delete(key)
    \/ Cleanup
    \/ \E t2 \in Instants : Tick(t2)

SpecStore == InitCache /\ [][NextStore]_vars

(***************************************************************************)
(* The planning endpoint on its own: one task, every shape of planning     *)
(* query (with and without lpa, no date, one date, two dates in either     *)
(* order or equal).                                                        *)
(***************************************************************************)
PlanningQueries ==
    { Query("planning", None, None, lpa, date_from, date_to, None) :
        lpa \in {None, "City of York Council"},
        date_from \in {None, "2025-01-01", "2025-12-31"},
        date_to \in {None, "2025-01-01"} }

NextPlanning ==
    \/ \E q \in PlanningQueries : Request("A", q)
    \/ \E resp \in UpstreamResponses : FetchReturns("A", resp)
    \/ Respond("A")
    \/ \E t2 \in Instants : Tick(t2)

SpecPlanning == Init /\ [][NextPlanning]_vars

(***************************************************************************)
(* The three services serving one request at a time: one task, the queries *)
(* of every domain, in mock and in live mode.                              *)
(***************************************************************************)
NextSerial ==
    \/ \E q \in IssuedQueries(MOCK_MODE) : Request("A", q)
    \/ \E resp \in UpstreamResponses : FetchReturns("A", resp)
    \/ \E resp \in UpstreamResponses : PrimaryReturns("A", resp)
    \/ \E resp \in UpstreamResponses : ForecastReturns("A", resp)
    \/ Respond("A")
    \/ \E t2 \in Instants : Tick(t2)

SpecSerial == Init /\ [][NextSerial]_vars

(***************************************************************************)
(* generate_key called directly, with any prefix and any keyword           *)
(* arguments: each name at most once, in any order, each value None, the   *)
(* empty string, or text with or without the characters ':' and '='.       *)
(***************************************************************************)
KeyNames == {"postcode", "uprn"}

KeyValues == {None, "", "A", "B", "A:uprn=B"}

\* the keyword arguments of one call, in the order the caller wrote them
KeyArgs ==
    {<<>>}
    \cup {<<<<n, v>>>> : n \in KeyNames, v \in KeyValues}
    \cup {kw \in {<<<<n1, v1>>, <<n2, v2>>>> :
                        n1 \in KeyNames, n2 \in KeyNames,
                        v1 \in KeyValues, v2 \in KeyValues} :
            kw[1][1] # kw[2][1]}

\* key = cache.generate_key(prefix, **kwargs)
GenerateKey(prefix, kwargs) ==
    /\ built' = [prefix |-> prefix, kwargs |-> kwargs,
                 key |-> generate_key(prefix, kwargs),
                 p_prefix |-> built.prefix, p_kwargs |-> built.kwargs,
                 p_key |-> built.key]
    /\ UNCHANGED <<now, cache, MOCK_MODE, hook, activeTab, adapter, air, client, task, api, lock, thread, log>>

InitKey == Init /\ MOCK_MODE = TRUE

NextKey == \E prefix \in Domains, kwargs \in KeyArgs : GenerateKey(prefix, kwargs)

SpecKey == InitKey /\ [][NextKey]_vars

(***************************************************************************)
(* The cache's methods called by concurrent threads, one statement at a    *)
(* time.  Every method body is inside `with self._lock:`.  Each set call   *)
(* stores a value of its own (the stamp numbers the set calls), so that an *)
(* entry tells which call wrote it.                                        *)
(***************************************************************************)
LockKeys == CacheKeys

LockTTLs == {CACHE_TTL_AIR_QUALITY}

\* the value the n-th set call stores under key
ValueOfSet(key, n) == Transformed("bins", key, "live", n)

\* a lock that lets a thread in while another one holds it
Acquire_unguarded(t) == lock' = t

\* `with self._lock:` on entry: blocks until the lock is free
Acquire(t) == lock = None /\ lock' = t

\* the method returns and the with block releases the lock
Release(t) ==
    /\ lock' = None
    /\ thread' = [thread EXCEPT ![t] = IdleThread]

\* the bookkeeping of `del self._cache[key]`
Removal(c, key) ==
    IF key \in DOMAIN c
    THEN [log EXCEPT !.removed = @ \cup {c[key].value.stamp},
                     !.twice = @ \/ c[key].value.stamp \in log.removed]
    ELSE [log EXCEPT !.keyerror = TRUE]

\* the dict after `del self._cache[key]`
Deleted(c, key) == [x \in DOMAIN c \ {key} |-> c[x]]

\* a thread calls cache.get(key), cache.delete(key) or cache.cleanup()
Call(t, method, key) ==
    /\ thread[t].pc = "idle"
    /\ thread' = [thread EXCEPT ![t] =
                    [IdleThread EXCEPT !.pc = method, !.key = key]]
    /\ UNCHANGED <<now, cache, MOCK_MODE, hook, activeTab, adapter, air, client, task, api, built, lock, log>>

\* a thread calls cache.set(key, value, ttl)
CallSet(t, key, ttl) ==
    /\ thread[t].pc = "idle"
    /\ log.sets < MaxSets
    /\ log' = [log EXCEPT !.sets = @ + 1]
    /\ thread' = [thread EXCEPT ![t] =
                    [IdleThread EXCEPT !.pc = "set", !.key = key, !.ttl = ttl,
                                       !.value = ValueOfSet(key, log.sets + 1)]]
    /\ UNCHANGED <<now, cache, MOCK_MODE, hook, activeTab, adapter, air, client, task, api, built, lock>>

\* the thread gets the lock and enters the body of its method
Enter(t) ==
    /\ thread[t].pc \in {"get", "set", "delete", "cleanup"}
    /\ Acquire(t)
    /\ thread' = [thread EXCEPT ![t].pc = thread[t].pc \o "_body"]
    /\ UNCHANGED <<now, cache, MOCK_MODE, hook, activeTab, adapter, air, client, task, api, built, log>>

\* get:  entry = self._cache.get(key); if entry is None: return None
GetRead(t) ==
    /\ thread[t].pc = "get_body"
    /\ IF thread[t].key \in DOMAIN cache
       THEN /\ thread' = [thread EXCEPT ![t].pc = "get_check",
                                        ![t].entry = cache[thread[t].key]]
            /\ UNCHANGED lock
       ELSE Release(t)
    /\ UNCHANGED <<now, cache, MOCK_MODE, hook, activeTab, adapter, air, client, task, api, built, log>>

\* get:  if entry.is_expired(): ...  return entry.value
GetCheck(t) ==
    /\ thread[t].pc = "get_check"
    /\ IF is_expired(thread[t].entry, now)
       THEN thread' = [thread EXCEPT ![t].pc = "get_del"] /\ UNCHANGED lock
       ELSE Release(t)
    /\ UNCHANGED <<now, cache, MOCK_MODE, hook, activeTab, adapter, air, client, task, api, built, log>>

\* get:  del self._cache[key]; return None
GetDel(t) ==
    /\ thread[t].pc = "get_del"
    /\ log' = Removal(cache, thread[t].key)
    /\ cache' = Deleted(cache, thread[t].key)
    /\ Release(t)
    /\ UNCHANGED <<now, MOCK_MODE, hook, activeTab, adapter, air, client, task, api, built>>

\* set:  self._cache[key] = CacheEntry(value, time.time() + ttl, time.time())
SetStore(t) ==
    /\ thread[t].pc = "set_body"
    /\ \E t2 \in ClockReadings(now) :
          /\ cache' = cache_set(cache, thread[t].key, thread[t].value,
                                thread[t].ttl, now, t2)
          /\ now' = t2
    /\ Release(t)
    /\ UNCHANGED <<MOCK_MODE, hook, activeTab, adapter, air, client, task, api, built, log>>

\* delete:  if key in self._cache: ...  return False
DeleteCheck(t) ==
    /\ thread[t].pc = "delete_body"
    /\ IF thread[t].key \in DOMAIN cache
       THEN thread' = [thread EXCEPT ![t].pc = "delete_del"] /\ UNCHANGED lock
       ELSE Release(t)
    /\ UNCHANGED <<now, cache, MOCK_MODE, hook, activeTab, adapter, air, client, task, api, built, log>>

\* delete:  del self._cache[key]; return True
DeleteDel(t) ==
    /\ thread[t].pc = "delete_del"
    /\ log' = Removal(cache, thread[t].key)
    /\ cache' = Deleted(cache, thread[t].key)
    /\ Release(t)
    /\ UNCHANGED <<now, MOCK_MODE, hook, activeTab, adapter, air, client, task, api, built>>

\* cleanup:  expired = [k for k, e in self._cache.items() if e.is_expired()]
CleanupScan(t) ==
    /\ thread[t].pc = "cleanup_body"
    /\ LET expired == {k \in DOMAIN cache : is_expired(cache[k], now)} IN
       IF expired # {}
       THEN /\ thread' = [thread EXCEPT ![t].pc = "cleanup_del",
                                        ![t].expired = expired]
            /\ UNCHANGED lock
       ELSE Release(t)
    /\ UNCHANGED <<now, cache, MOCK_MODE, hook, activeTab, adapter, air, client, task, api, built, log>>

\* cleanup:  for k in expired: del self._cache[k];  return len(expired)
CleanupDel(t) ==
    /\ thread[t].pc = "cleanup_del"
    /\ \E k \in thread[t].expired :
          /\ log' = Removal(cache, k)
          /\ cache' = Deleted(cache, k)
          /\ IF thread[t].expired = {k}
             THEN Release(t)
             ELSE /\ thread' = [thread EXCEPT ![t].expired = @ \ {k},
                                              ![t].count = @ + 1]
                  /\ UNCHANGED lock
    /\ UNCHANGED <<now, MOCK_MODE, hook, activeTab, adapter, air, client, task, api, built>>

InitLock == Init /\ MOCK_MODE = TRUE

NextLock ==
    \/ \E t \in Threads, method \in {"get", "delete"}, key \in LockKeys :
            Call(t, method, key)
    \/ \E t \in Threads : Call(t, "cleanup", None)
    \/ \E t \in Threads, key \in LockKeys, ttl \in LockTTLs : CallSet(t, key, ttl)
    \/ \E t \in Threads : Enter(t)
    \/ \E t \in Threads : GetRead(t)
    \/ \E t \in Threads : GetCheck(t)
    \/ \E t \in Threads : GetDel(t)
    \/ \E t \in Threads : SetStore(t)
    \/ \E t \in Threads : DeleteCheck(t)
    \/ \E t \in Threads : DeleteDel(t)
    \/ \E t \in Threads : CleanupScan(t)
    \/ \E t \in Threads : CleanupDel(t)
    \/ \E t2 \in Instants : Tick(t2)

SpecLock == InitLock /\ [][NextLock]_vars

(***************************************************************************)
(* Concurrent requests in live mode: two tasks ask the bins and planning   *)
(* services for three keys, their fetches overlap, and a caller may go     *)
(* away while its fetch is in flight.                                      *)
(***************************************************************************)
FetchQueries ==
    { Query("bins", "YO1 1AA", None, None, None, None, None),
      Query("bins", None, "100050535540", None, None, None, None),
      Query("planning", None, None, "City of York Council", None, None, None) }

\* a server that cancels the handler when its client disconnects: the
\* await raises CancelledError and the request ends with nothing stored
Abandon_cancels(t) ==
    /\ task[t].pc = "fetching"
    /\ ~task[t].abandoned
    /\ task' = [task EXCEPT ![t] = IdleTask]
    /\ UNCHANGED <<now, cache, MOCK_MODE, hook, activeTab, adapter, air, client, api, built, lock, thread, log>>

\* the caller goes away while the fetch is in flight: the handler is not
\* told and carries on, its response will have no reader
Abandon(t) ==
    /\ task[t].pc = "fetching"
    /\ ~task[t].abandoned
    /\ task' = [task EXCEPT ![t].abandoned = TRUE]
    /\ UNCHANGED <<now, cache, MOCK_MODE, hook, activeTab, adapter, air, client, api, built, lock, thread, log>>

InitFetch == Init /\ ~MOCK_MODE

NextFetch ==
    \/ \E t \in Tasks, q \in FetchQueries : Request(t, q)
    \/ \E t \in Tasks, resp \in UpstreamResponses : FetchReturns(t, resp)
    \/ \E t \in Tasks : Abandon(t)
    \/ \E t \in Tasks : Respond(t)
    \/ \E t2 \in Instants : Tick(t2)

SpecFetch == InitFetch /\ [][NextFetch]_vars

(***************************************************************************)
(* The air-quality transformation on every sequence of up to MaxReadings   *)
(* readings.                                                               *)
(***************************************************************************)
Readings == {Reading(n, i) : n \in PollutantNames, i \in DaqiIndices}

ReadingsUpTo(n) == UNION {[1..k -> Readings] : k \in 1..n}

InitAir == Init /\ MOCK_MODE = FALSE

NextAir ==
    \/ /\ air = NoTransform
       /\ \E readings \in ReadingsUpTo(MaxReadings) : TransformAir(readings)
    \/ AirRendered

SpecAir == InitAir /\ [][NextAir]_vars

(***************************************************************************)
(* One browser calling the fetch functions, one call after the other.      *)
(***************************************************************************)
InitClient == Init /\ MOCK_MODE = FALSE

NextClient ==
    \/ \E fn \in FetchFunctions : \E loop \in HasRetryLoop(fn) : CallFetch(fn, loop)
    \/ \E resp \in Settlements : FetchSettles(resp)
    \/ DelayEnds
    \/ CallHandled

SpecClient == InitClient /\ [][NextClient]_vars

(***************************************************************************)
(* The cache called with time-to-live values outside its contract: set     *)
(* takes any number and does not look at its sign.                         *)
(***************************************************************************)
ContractTTLs == {0 - CACHE_TTL_AIR_QUALITY, 0, CACHE_TTL_AIR_QUALITY}

NextTtl ==
    \/ \E key \in CacheKeys : Get(key)
    \/ \E key \in CacheKeys, value \in StoreValues, ttl \in ContractTTLs :
            Set(key, value, ttl)
    \/ \E t2 \in Instants : Tick(t2)

SpecTtl == InitCache /\ [][NextTtl]_vars

(***************************************************************************)
(* One component using useApi: its effect, refetch, reset and the          *)
(* settlements of its executions, in any order.                            *)
(***************************************************************************)
NextHook ==
    \/ \E immediate \in BOOLEAN : UseApi("bins", immediate)
    \/ EffectRuns("bins")
    \/ Refetch("bins")
    \/ /\ InFlight(hook["bins"]) # {}
       /\ \E id \in InFlight(hook["bins"]) : \E result \in FetchedData :
              FetcherResolves("bins", id, result)
    \/ /\ InFlight(hook["bins"]) # {}
       /\ \E id \in InFlight(hook["bins"]) : \E message \in FetcherErrors :
              FetcherRejects("bins", id, message)
    \/ Reset("bins")

SpecHook == InitClient /\ [][NextHook]_vars

(***************************************************************************)
(* The App: three hooks fetching on mount, the user switching tabs and     *)
(* clicking Retry.                                                         *)
(***************************************************************************)
NextApp ==
    \/ AppRenders
    \/ AppEffectsRun
    \/ \E h \in Tabs : \E id \in InFlight(hook[h]) : FetcherResolves(h, id, "response 1")
    \/ \E h \in Tabs : \E id \in InFlight(hook[h]) : FetcherRejects(h, id, "Service unavailable")
    \/ \E h \in Tabs : Retry(h)
    \/ \E tab \in Tabs : SwitchTab(tab)

SpecApp == InitClient /\ [][NextApp]_vars

(***************************************************************************)
(* A client of the bins and planning adapters' transformations.            *)
(***************************************************************************)
UpstreamBins ==
    {UpstreamBin(b, d, t) : b \in {"GREY BIN", "GREEN BIN"}, d \in Dates, t \in Times}

UpstreamEntities ==
    {UpstreamEntity(r, d, p) : r \in {"23/12345/FUL", "24/00001/HOU"}, d \in Dates,
                               p \in {"", "approved"}}

ListsUpTo(S, n) == UNION {[1..k -> S] : k \in 0..n}

NextAdapter ==
    \/ /\ adapter = NoAdapter
       /\ \E entries \in ListsUpTo(UpstreamBins, MaxEntries) : TransformBins(entries)
    \/ /\ adapter = NoAdapter
       /\ \E entities \in ListsUpTo(UpstreamEntities, MaxEntries) :
              TransformPlanning(entities)
    \/ AdapterReturns

SpecAdapter == InitClient /\ [][NextAdapter]_vars

(***************************************************************************)
(* Properties.                                                             *)
(***************************************************************************)
\* a step in which task t starts a request that passes the router
Starts(t) ==
    /\ task[t].pc = "idle"
    /\ task'[t].pc # "idle"
    /\ task'[t].outcome # "InvalidRequest"

\* a step in which task t's request ends
Ends(t) == task[t].pc # "done" /\ task'[t].pc = "done"

\* C1: whenever cache.get(key) hits for the key of a request (an entry is
\* present and get returns its value), the request ends at once with exactly
\* that value, the task has invoked no adapter and called no upstream
\* endpoint, and the cache is as it was; this includes a cached degraded
\* air-quality result.
C1_NoUpstreamOnHit ==
    [][\A t \in Tasks :
          (/\ Starts(t)
           /\ task'[t].key \in DOMAIN cache
           /\ cache_get(cache, task'[t].key, now) = cache[task'[t].key].value)
          => /\ task'[t].pc = "done"
             /\ task'[t].hit
             /\ task'[t].outcome = "Success"
             /\ task'[t].result = cache[task'[t].key].value
             /\ task'[t].calls = 0
             /\ task'[t].primary = 0
             /\ task'[t].fallback = 0
             /\ cache' = cache]_vars

\* C1 witness: a request has been answered from the cache with a degraded
\* air-quality result and no call at all
C1_Witness ==
    \E t \in Tasks :
        /\ task[t].pc = "done"
        /\ task[t].hit
        /\ task[t].result.origin = "degraded"
        /\ task[t].calls = 0
        /\ task[t].primary = 0
        /\ task[t].fallback = 0

\* the TTL the documentation gives for each endpoint
DocumentedTTL(domain) ==
    CASE domain = "bins" -> CACHE_TTL_BINS
      [] domain = "planning" -> CACHE_TTL_PLANNING
      [] domain = "air_quality" -> CACHE_TTL_AIR_QUALITY

C4_ExpiredStaysAbsent ==
    (/\ api.name = "get"
     /\ api.key \in DOMAIN api.sets
     /\ api.at - api.sets[api.key].at > api.sets[api.key].ttl)
        => /\ api.ret = NoneValue
           /\ api.key \notin DOMAIN cache

\* C4 witness: a second get after the expiry (the first one removed the
\* entry) has returned absent
C4_Witness ==
    /\ api.name = "get"
    /\ api.key \in DOMAIN api.sets
    /\ api.at - api.sets[api.key].at > api.sets[api.key].ttl
    /\ ~api.had
    /\ api.ret = NoneValue

\* C5: a get(k) issued at the instant of the last set(k, v, ttl), ttl > 0,
\* returns v, whatever k held before that set (nothing, a live entry or an
\* expired one); right after a set the key's entry is the one just written
\* (last writer wins) and the other keys' entries are untouched.
C5_RoundTrip ==
    /\ (/\ api.name = "get"
        /\ api.key \in DOMAIN api.sets
        /\ api.sets[api.key].at = api.at)
            => api.ret = api.sets[api.key].value
    /\ api.name = "set"
            => /\ api.ttl > 0
               /\ api.key \in DOMAIN cache
               /\ cache[api.key].value = api.value
               /\ cache[api.key].expires_at = api.at + api.ttl

\* C5 witness: a set has replaced an expired entry and the get that followed
\* at once has returned the new value
C5_Witness ==
    /\ api.name = "get"
    /\ api.key \in DOMAIN api.sets
    /\ api.sets[api.key].at = api.at
    /\ api.sets[api.key].over = "expired"
    /\ api.ret = api.sets[api.key].value

Failures == {"UpstreamNotFound", "UpstreamUnavailable"}

C7_FallbackOrder ==
    \A t \in Tasks :
        /\ task[t].primary <= 1
        /\ task[t].fallback <= 1
        /\ task[t].fallback = 1
            => /\ task[t].primary = 1
               /\ task[t].p_out \in Failures
               /\ task[t].f_area = task[t].p_area
        /\ task[t].p_out = "Success"
            => task[t].fallback = 0 /\ task[t].f_out = None
        /\ task[t].pc = "primary"
            => task[t].primary = 1 /\ task[t].fallback = 0 /\ task[t].p_out = None
        /\ task[t].pc = "fallback"
            => task[t].f_out = None
        /\ (task[t].p_out # None \/ task[t].f_out # None \/ task[t].primary > 0)
            => task[t].query.domain = "air_quality" /\ task[t].calls = 1
        /\ (task[t].pc = "done" /\ ~task[t].hit /\ task[t].result.origin = "degraded")
            => /\ task[t].primary = 1
               /\ task[t].fallback = 1
               /\ task[t].p_out \in Failures
               /\ task[t].f_out \in Failures
        /\ (task[t].pc = "done" /\ ~task[t].hit /\ ~MOCK_MODE
                /\ task[t].query.domain = "air_quality")
            => task[t].primary = 1

\* C7 witness: the Daily endpoint was not found, the Forecast endpoint was
\* then called once with the same area and answered
C7_Witness ==
    \E t \in Tasks :
        /\ task[t].pc = "done"
        /\ task[t].primary = 1
        /\ task[t].fallback = 1
        /\ task[t].p_out = "UpstreamNotFound"
        /\ task[t].f_out = "Success"
        /\ task[t].f_area = task[t].p_area
        /\ task[t].result.origin = "forecast"

C9_FailureNotCached ==
    [][\A t \in Tasks :
          /\ (Ends(t) /\ task'[t].adapter \in Failures)
                => /\ task'[t].outcome = task'[t].adapter
                   /\ task'[t].result = NoneValue
                   /\ task'[t].calls = 1
                   /\ cache' = cache
          /\ (Starts(t) /\ task'[t].outcome # "Success")
                => /\ \A k \in DOMAIN cache' :
                        k \in DOMAIN cache /\ cache'[k] = cache[k]
                   /\ \A k \in DOMAIN cache \ DOMAIN cache' :
                        k = task'[t].key /\ now > cache[k].expires_at
          /\ (Ends(t) /\ task'[t].outcome \in Failures)
                => task'[t].adapter = task'[t].outcome
          /\ (Starts(t) /\ task'[t].key \notin DOMAIN cache)
                => ~task'[t].hit /\ task'[t].calls = 1]_vars

\* C9 witness: the adapter was unavailable, the caller has got that failure
\* and the key has no entry
C9_Witness ==
    \E t \in Tasks :
        /\ task[t].pc = "done"
        /\ task[t].adapter = "UpstreamUnavailable"
        /\ task[t].outcome = "UpstreamUnavailable"
        /\ task[t].calls = 1
        /\ task[t].key \notin DOMAIN cache

\* C10: when the adapter succeeds on a miss the result is stored under the
\* key built for the query, with expiresAt = now + the TTL of the queried
\* domain (3600 for bins, 1800 for planning, 600 for air quality), the caller
\* gets the very result that was stored, and no other key's entry changes.
C10_StoreOnSuccess ==
    [][\A t \in Tasks :
          (Ends(t) /\ ~task'[t].hit /\ task'[t].outcome = "Success")
            => /\ task'[t].adapter = "Success"
               /\ task'[t].key = KeyOf(task'[t].query)
               /\ task'[t].key \in DOMAIN cache'
               /\ cache'[task'[t].key].value = task'[t].result
               /\ cache'[task'[t].key].expires_at
                      = now + DocumentedTTL(task'[t].query.domain)
               /\ \A k \in (DOMAIN cache \cup DOMAIN cache') \ {task'[t].key} :
                      k \in DOMAIN cache /\ k \in DOMAIN cache' /\ cache'[k] = cache[k]]_vars

\* C10 witness: a planning result has just been stored with the planning TTL
\* and handed to the caller
C10_Witness ==
    \E t \in Tasks :
        /\ task[t].pc = "done"
        /\ ~task[t].hit
        /\ task[t].outcome = "Success"
        /\ task[t].query.domain = "planning"
        /\ task[t].key \in DOMAIN cache
        /\ cache[task[t].key].value = task[t].result
        /\ cache[task[t].key].expires_at = now + CACHE_TTL_PLANNING

C12_BinsPrecondition ==
    [][\A t \in Tasks :
          (/\ task[t].pc = "idle"
           /\ task'[t].pc # "idle"
           /\ task'[t].query.domain = "bins"
           /\ task'[t].query.postcode = None
           /\ task'[t].query.uprn = None)
          => /\ task'[t].pc = "done"
             /\ task'[t].outcome = "InvalidRequest"
             /\ task'[t].result = NoneValue
             /\ ~task'[t].hit
             /\ task'[t].key = None
             /\ task'[t].calls = 0
             /\ task'[t].adapter = None
             /\ task'[t].primary = 0
             /\ task'[t].fallback = 0
             /\ cache' = cache]_vars

\* C12 witness: a bins request with a house number but neither postcode nor
\* uprn has been rejected while the cache held a bins entry
C12_Witness ==
    \E t \in Tasks :
        /\ task[t].pc = "done"
        /\ task[t].outcome = "InvalidRequest"
        /\ task[t].query.domain = "bins"
        /\ task[t].query.house_number = "10"
        /\ task[t].query.postcode = None
        /\ task[t].query.uprn = None
        /\ task[t].calls = 0
        /\ \E k \in DOMAIN cache : cache[k].value.domain = "bins"

\* C13: a planning request without lpa, or with both dates given and
\* date_from after date_to, ends at once with InvalidRequest: no key, no
\* adapter invocation, no result, the cache exactly as it was; a request with
\* lpa and no date, one date, or date_from <= date_to is not rejected.
C13_PlanningPrecondition ==
    [][\A t \in Tasks :
          (/\ task[t].pc = "idle"
           /\ task'[t].pc # "idle"
           /\ task'[t].query.domain = "planning")
          => LET q == task'[t].query
                 both == q.date_from # None /\ q.date_to # None
                 bad == \/ q.lpa = None
                        \/ both /\ DateRank(q.date_from) > DateRank(q.date_to)
             IN  /\ bad => /\ task'[t].pc = "done"
                           /\ task'[t].outcome = "InvalidRequest"
                           /\ task'[t].result = NoneValue
                           /\ task'[t].key = None
                           /\ task'[t].calls = 0
                           /\ task'[t].adapter = None
                           /\ cache' = cache
                 /\ ~bad => /\ task'[t].outcome # "InvalidRequest"
                            /\ task'[t].key = KeyOf(q)
                            /\ task'[t].hit \/ task'[t].calls = 1]_vars

\* C13 witness: a request with date_from after date_to has been rejected
\* after requests with one date and with two equal dates were served and
\* cached
C13_Witness ==
    /\ task["A"].pc = "done"
    /\ task["A"].outcome = "InvalidRequest"
    /\ task["A"].query.lpa # None
    /\ task["A"].query.date_from = "2025-12-31"
    /\ task["A"].query.date_to = "2025-01-01"
    /\ task["A"].calls = 0
    /\ KeyOf(Query("planning", None, None, "City of York Council",
                    "2025-12-31", None, None)) \in DOMAIN cache
    /\ KeyOf(Query("planning", None, None, "City of York Council",
                    "2025-01-01", "2025-01-01", None)) \in DOMAIN cache

\* the (name, value) pairs of a call
Pairs(kwargs) == {kwargs[i] : i \in 1..Len(kwargs)}

\* the pairs whose value is present (not None)
Present(kwargs) == {p \in Pairs(kwargs) : p[2] # None}

\* C14: key-order independence.  Two calls with the same prefix and the same
\* (name, value) pairs, written in whatever order, return the same key.
C14_KeyOrderIndependence ==
    (/\ built.key # None
     /\ built.p_key # None
     /\ built.prefix = built.p_prefix
     /\ Pairs(built.kwargs) = Pairs(built.p_kwargs))
        => built.key = built.p_key

\* C14 witness: two calls with two present parameters written in opposite
\* orders have returned the same key
C14_Witness ==
    /\ built.prefix = built.p_prefix
    /\ Len(built.kwargs) = 2
    /\ built.kwargs # built.p_kwargs
    /\ Pairs(built.kwargs) = Pairs(built.p_kwargs)
    /\ Present(built.kwargs) = Pairs(built.kwargs)
    /\ built.key = built.p_key
    /\ built.key # None

\* the pairs whose value is neither None nor the empty string
PresentNonEmpty(kwargs) == {p \in Pairs(kwargs) : p[2] # None /\ p[2] # ""}

\* C15 as stated: a parameter whose value is absent or empty contributes
\* nothing to the key, so two calls with the same prefix whose parameters
\* with a non-empty value are the same return the same key.
C15_AbsentOrEmptyOmitted ==
    (/\ built.key # None
     /\ built.p_key # None
     /\ built.prefix = built.p_prefix
     /\ PresentNonEmpty(built.kwargs) = PresentNonEmpty(built.p_kwargs))
        => built.key = built.p_key

\* C16 as stated: two calls with the same prefix whose sets of present
\* (name, value) pairs differ never return the same key, also when a value
\* contains ':' or '='.
C16_DifferentParamsDifferentKeys ==
    (/\ built.key # None
     /\ built.p_key # None
     /\ built.prefix = built.p_prefix
     /\ Present(built.kwargs) # Present(built.p_kwargs))
        => built.key # built.p_key

\* C17: a call with no present parameter (none at all, or only None values)
\* returns exactly its prefix, and that key differs from the key of every
\* call, with the same or another domain prefix, that has a present
\* parameter.
C17_ZeroParamsKey ==
    /\ (built.key # None /\ Present(built.kwargs) = {})
            => built.key = built.prefix
    /\ (built.key # None /\ built.p_key # None)
            => /\ (Present(built.kwargs) = {} /\ Present(built.p_kwargs) # {})
                    => built.key # built.p_key
               /\ (Present(built.p_kwargs) = {} /\ Present(built.kwargs) # {})
                    => built.key # built.p_key

\* C17 witness: a call with two None-valued parameters has returned the bare
\* prefix, after a call of another domain with a present parameter whose
\* value contains ':' and '='
C17_Witness ==
    /\ Len(built.kwargs) = 2
    /\ Present(built.kwargs) = {}
    /\ built.key = built.prefix
    /\ built.p_prefix # built.prefix
    /\ built.p_prefix # None
    /\ \E p \in Present(built.p_kwargs) : p[2] = "A:uprn=B"
    /\ built.key # built.p_key

\* C18 as stated: for a bins or planning request in live mode the caller gets
\* Success for a 2xx response with a parsable body, UpstreamNotFound for a
\* 404, and UpstreamUnavailable for a timeout, a connection failure, any
\* other status and a 2xx response whose body does not parse.
C18_LiveOutcomeMapping ==
    \A t \in Tasks :
        (/\ task[t].pc = "done"
         /\ task[t].resp # None
         /\ task[t].query.domain \in {"bins", "planning"})
            => task[t].outcome =
                  CASE task[t].resp = "ok" -> "Success"
                    [] task[t].resp = "status404" -> "UpstreamNotFound"
                    [] task[t].resp \in {"timeout", "connect_error",
                                         "status5xx", "bad_body"}
                         -> "UpstreamUnavailable"

\* a result without the stamp of the adapter invocation that produced it
Unstamped(result) == [result EXCEPT !.stamp = 0]

InBody(t) ==
    thread[t].pc \in {"get_body", "get_check", "get_del", "set_body",
                      "delete_body", "delete_del", "cleanup_body", "cleanup_del"}

WorstIndex(readings, name) ==
    CHOOSE m \in {readings[i].index : i \in {j \in 1..Len(readings) : readings[j].name = name}} :
        \A i \in 1..Len(readings) : readings[i].name = name => readings[i].index <= m

\* C24: for every sequence of readings the transformation's pollutants hold
\* exactly one entry for each pollutant name that has a reading and none for
\* any other name, the entry carries the highest index reported for its
\* name, and max_daqi is the maximum index over these entries.
C24_PollutantDedup ==
    air.readings # <<>> =>
        /\ \A i \in 1..Len(air.readings) :
               \E j \in 1..Len(air.pollutants) :
                   /\ air.pollutants[j].name = air.readings[i].name
                   /\ \A k \in 1..Len(air.pollutants) :
                          air.pollutants[k].name = air.readings[i].name => k = j
        /\ \A j \in 1..Len(air.pollutants) :
               /\ \E i \in 1..Len(air.readings) :
                      air.readings[i].name = air.pollutants[j].name
               /\ air.pollutants[j].index =
                      WorstIndex(air.readings, air.pollutants[j].name)
        /\ \E j \in 1..Len(air.pollutants) : air.pollutants[j].index = air.max_daqi
        /\ \A j \in 1..Len(air.pollutants) : air.pollutants[j].index <= air.max_daqi

\* C24 witness: two sites report NO2, at index 2 and at index 4; the result
\* has the one NO2 entry at index 4 and max_daqi 4
C24_Witness ==
    /\ air.readings = <<Reading("NO2", 2), Reading("NO2", 4)>>
    /\ air.pollutants = <<Reading("NO2", 4)>>
    /\ air.max_daqi = 4

C27_EntryInvariant ==
    \A k \in DOMAIN cache :
        /\ k \in DOMAIN api.sets
        /\ api.sets[k].ttl > 0
        /\ cache[k].created_at = api.sets[k].at
        /\ cache[k].expires_at = cache[k].created_at + api.sets[k].ttl

\* C28: a call of cleanup() removes exactly the entries that are expired at
\* the time of the call (the clock is past their expires_at), returns the
\* number of entries it removed, leaves every other entry as it was (value,
\* expires_at, created_at), and changes the result of get for no key: get
\* after the cleanup returns what get in its place would have returned.
C28_CleanupFrame ==
    [][(api'.name = "cleanup" /\ api' # api)
          => /\ now' = now
             /\ DOMAIN cache' = {k \in DOMAIN cache : ~(now > cache[k].expires_at)}
             /\ \A k \in DOMAIN cache' : cache'[k] = cache[k]
             /\ api'.count = Cardinality(DOMAIN cache \ DOMAIN cache')
             /\ \A key \in CacheKeys :
                    cache_get(cache', key, now') = cache_get(cache, key, now)]_vars

\* C28 witness: a cleanup has just removed one expired entry and returned 1,
\* and the other key still holds its unexpired entry
C28_Witness ==
    /\ api.name = "cleanup"
    /\ api.count = 1
    /\ Cardinality(DOMAIN cache) = 1
    /\ \A k \in DOMAIN cache : ~is_expired(cache[k], now) /\ now > cache[k].created_at

\* response.ok: the status is 2xx
\* what one call has done so far: requests sent, requests settled, waits
\* made, and whether it has ended
Progress(c) ==
    c.sent + Len(c.settled) + Len(c.waits)
        + (IF c.pc \in {"returned", "thrown"} THEN 1 ELSE 0)

\* attempts are made one at a time, at most MAX_RETRIES of them, and none
\* after an ok response
OneAtATime(c) ==
    /\ c.in_flight \in {0, 1}
    /\ c.in_flight = 1 <=> c.pc = "fetching"
    /\ c.sent = Len(c.settled) + c.in_flight
    /\ c.sent <= 3
    /\ c.sent <= MAX_RETRIES
    /\ \A i \in 1..Len(c.settled) :
           OkResponse(c.settled[i]) => i = Len(c.settled) /\ c.in_flight = 0

\* C29 as first stated: each fetch function makes its attempts one at a
\* time, at most MAX_RETRIES = 3 in total, stops at the first ok response
\* and returns its body, and every step of a call brings it nearer to its
\* end (it returns or throws once every attempt has settled).
C29_Original ==
    [][/\ OneAtATime(client) /\ OneAtATime(client')
       /\ (Len(client'.settled) > 0
            /\ OkResponse(client'.settled[Len(client'.settled)]))
           => client'.pc = "returned" /\ client'.result = ReturnedValue("body")
       /\ client'.pc = "returned"
           => OkResponse(client'.settled[Len(client'.settled)])
       /\ client.pc \in {"fetching", "delaying"}
           => /\ Progress(client') > Progress(client)
              /\ Progress(client') <= 2 * MAX_RETRIES + 3]_vars

\* C29: each fetch function makes its attempts one at a time, at most
\* MAX_RETRIES = 3 in total, stops at the first ok response and returns its
\* body, or throws when that body is not JSON, and every step of a call
\* brings it nearer to its end (it returns or throws once every attempt has
\* settled).
C29_BoundedRetries ==
    [][/\ OneAtATime(client) /\ OneAtATime(client')
       /\ (Len(client'.settled) > 0
            /\ Kind(client'.settled[Len(client'.settled)]) = "ok")
           => client'.pc = "returned" /\ client'.result = ReturnedValue("body")
       /\ (Len(client'.settled) > 0
            /\ Kind(client'.settled[Len(client'.settled)]) = "ok_bad_body")
           => client'.pc = "thrown" /\ client'.result.message = "SyntaxError"
       /\ client'.pc = "returned"
           => Kind(client'.settled[Len(client'.settled)]) = "ok"
       /\ client.pc \in {"fetching", "delaying"}
           => /\ Progress(client') > Progress(client)
              /\ Progress(client') <= 2 * MAX_RETRIES + 3]_vars

\* C29 witness: fetchBinCollections met a 5xx, then a network error, and has
\* returned the body of the ok response to its third and last attempt
C29_Witness ==
    /\ client.fn = "fetchBinCollections"
    /\ Kinds(client) = <<"status5xx", "network_error", "ok">>
    /\ client.sent = 3
    /\ client.pc = "returned"
    /\ client.result = ReturnedValue("body")

LastSettled(c) == c.settled[Len(c.settled)]

\* a response that is not ok and has a status below 500
ClientErrorResponse(resp) ==
    resp.error = None /\ ~OkResponse(resp) /\ resp.status < 500

AllOfKind(c, kind) == \A i \in 1..Len(c.settled) : Kind(c.settled[i]) = kind

Ascending(dates) ==
    \A i, j \in 1..Len(dates) : i < j => ~DateBefore(dates[j], dates[i])

\* the entries of a list are in descending order of the date field
Descending(dates) ==
    \A i, j \in 1..Len(dates) : i < j => ~DateBefore(dates[i], dates[j])

\* C34: whatever the order of the entries in the upstream response, the
\* bins of the adapter's output are in ascending collection_date order and
\* the planning applications in descending received_date order, and the
\* output has an entry for every upstream entry.
C34_AdapterOrder ==
    /\ Len(adapter.output) = Len(adapter.upstream)
    /\ adapter.domain = "bins"
        => Ascending([i \in 1..Len(adapter.output) |->
                          adapter.output[i].collection_date])
    /\ adapter.domain = "planning"
        => Descending([i \in 1..Len(adapter.output) |->
                           adapter.output[i].received_date])

\* C34 witness: three bins came latest first, across a change of year and
\* of month, and left earliest first
C34_Witness ==
    /\ adapter.domain = "bins"
    /\ Len(adapter.upstream) = 3
    /\ adapter.upstream[1].nextCollectionDate.date = <<2026, 1, 2>>
    /\ adapter.upstream[2].nextCollectionDate.date = <<2025, 12, 9>>
    /\ adapter.upstream[3].nextCollectionDate.date = <<2025, 11, 10>>
    /\ adapter.output[1].collection_date = <<2025, 11, 10>>
    /\ adapter.output[3].collection_date = <<2026, 1, 2>>

\* C37: in every state of useApi, whatever the order of execute and
\* refetch starts, resolutions, rejections and resets, loading = true
\* implies error = null.
C37_NoErrorWhileLoading ==
    hook["bins"].state.loading => hook["bins"].state.error = None

\* C37 witness: an execution was rejected, and the hook is loading again
\* with another execution in flight and no error shown
C37_Witness ==
    /\ hook["bins"].state.loading
    /\ hook["bins"].state.error = None
    /\ \E id \in 1..Len(hook["bins"].executions) :
           hook["bins"].executions[id].status = "rejected"
    /\ InFlight(hook["bins"]) # {}
    /\ hook["bins"].was_reset

\* C38: when executions of useApi overlapped (and no reset was made),
\* loading stays true while the execution started last is in flight, and
\* once all have settled the data and the error are those of the execution
\* started last.
C38_LastStartedWins ==
    LET hk == hook["bins"]
        n == Len(hk.executions)
    IN  (hk.overlapped /\ ~hk.was_reset)
            => /\ n \in InFlight(hk) => hk.state.loading
               /\ (InFlight(hk) = {} /\ hk.executions[n].status = "resolved")
                   => /\ hk.state.data = hk.executions[n].value
                      /\ hk.state.error = None
               /\ (InFlight(hk) = {} /\ hk.executions[n].status = "rejected")
                   => hk.state.error = hk.executions[n].value

\* C39: after reset() the state is {data: null, loading: false, error:
\* null} until the next execute starts, also when an execution started
\* before the reset settles after it.
C39_ResetStays ==
    hook["bins"].clean
        => hook["bins"].state = [data |-> None, loading |-> FALSE, error |-> None]

\* C35: after set(k, v, ttl) with ttl <= 0 no get(k) returns v, whether the
\* set was rejected or stored an entry that counts as expired: not a get
\* at a later instant, and not a get at the instant of the set.
C35_NonPositiveTtl ==
    (api.name = "get" /\ api.key \in DOMAIN api.sets /\ api.sets[api.key].ttl <= 0)
        => api.ret # api.sets[api.key].value

====
